---- MODULE Spec2Model ----
(***************************************************************************)
(* Model of the JSON repair loop of src/python.py: fix_json_until_valid    *)
(* and the functions it calls (run_jsonlint, check_json_via_python,        *)
(* simulate_python_execution, call_openai_for_fix, apply_fix_to_file).     *)
(*                                                                         *)
(* Text is a sequence of one-character strings over Alphabet.  The file    *)
(* content, the regex pattern and the replacement of a fix are such        *)
(* sequences.  Spec is the repair loop; FenceSpec applies                  *)
(* strip_markdown_fences to a response text and ValidatorSpec applies      *)
(* run_jsonlint to a file, each on its own.                                *)
(***************************************************************************)
EXTENDS Integers, Sequences, FiniteSets, TLC

\* ------------------------------------------------------------------ bounds
MaxLen == 2          \* longest initial file content
MaxPatLen == 1       \* longest regex_pattern of a fix
MaxReplLen == 2      \* longest replacement of a fix
MaxIterations == 2   \* largest max_iterations a run is started with
MaxRuns == 2         \* invocations of the tool on the same file
MaxTextLen == 3      \* longest response text before fences are put around it
MaxTagLen == 2       \* longest language tag of a code fence
MaxContentLen == 3   \* longest file content given to the two validators

\* ------------------------------------------------------------------ text
\* "[" "]" "," build JSON arrays; "\\" is the backslash; "0" stands for the
\* NUL character (a character that is neither JSON nor Python source).
NUL == "0"
BSL == "\\"
Alphabet == {"[", "]", ",", BSL, NUL}

RECURSIVE SeqsUpTo(_, _)
SeqsUpTo(S, n) ==
    IF n = 0 THEN {<<>>}
    ELSE LET shorter == SeqsUpTo(S, n - 1)
         IN  shorter \cup {Append(s, c) : s \in {t \in shorter : Len(t) = n - 1}, c \in S}

\* Python's  needle in haystack  for two strings: a contiguous occurrence.
Contains(haystack, needle) ==
    \E i \in 1..(Len(haystack) - Len(needle) + 1) :
        SubSeq(haystack, i, i + Len(needle) - 1) = needle

\* ------------------------------------------------------------------ JSON
\* json.load on the file content: the position after the value that starts
\* at i, or 0 when no value starts there.  Over Alphabet the only values
\* are arrays (there is no quote, digit or letter).
RECURSIVE JsonValueEnd(_, _), JsonElementsEnd(_, _)
JsonValueEnd(s, i) ==
    IF i > Len(s) \/ s[i] # "[" THEN 0
    ELSE IF i + 1 <= Len(s) /\ s[i + 1] = "]" THEN i + 2
    ELSE JsonElementsEnd(s, i + 1)

JsonElementsEnd(s, i) ==
    LET j == JsonValueEnd(s, i)
    IN  IF j = 0 \/ j > Len(s) THEN 0
        ELSE IF s[j] = "]" THEN j + 1
        ELSE IF s[j] = "," THEN JsonElementsEnd(s, j + 1)
        ELSE 0

json_load(s) == JsonValueEnd(s, 1) = Len(s) + 1

\* ------------------------------------------------------------------ Python source
\* compile(content, file_path, 'exec') over Alphabet: a statement is an
\* expression list, an expression is a list display followed by subscripts.
\* Each operator gives the position after what it parsed, or 0.
RECURSIVE PyListEnd(_, _), PyAtomEnd(_, _), PyTrailersEnd(_, _), PyExprEnd(_, _)
PyListEnd(s, i) ==
    LET e == PyExprEnd(s, i)
    IN  IF e = 0 THEN 0
        ELSE IF e > Len(s) THEN e
        ELSE IF s[e] = ","
             THEN IF e + 1 > Len(s) \/ s[e + 1] = "]" THEN e + 1
                  ELSE PyListEnd(s, e + 1)
        ELSE IF s[e] = "]" THEN e
        ELSE 0

PyAtomEnd(s, i) ==
    IF i > Len(s) \/ s[i] # "[" THEN 0
    ELSE IF i + 1 <= Len(s) /\ s[i + 1] = "]" THEN i + 2
    ELSE LET j == PyListEnd(s, i + 1)
         IN  IF j = 0 \/ j > Len(s) THEN 0
             ELSE IF s[j] # "]" THEN 0
             ELSE j + 1

PyTrailersEnd(s, i) ==
    IF i <= Len(s) /\ s[i] = "["
    THEN LET j == PyListEnd(s, i + 1)
         IN  IF j = 0 \/ j > Len(s) THEN 0
             ELSE IF s[j] # "]" THEN 0
             ELSE PyTrailersEnd(s, j + 1)
    ELSE i

PyExprEnd(s, i) ==
    LET a == PyAtomEnd(s, i)
    IN  IF a = 0 THEN 0 ELSE PyTrailersEnd(s, a)

HasNul(s) == \E i \in 1..Len(s) : s[i] = NUL

\* The outcomes compile() can have on the content.  Source text with a NUL
\* character raises ValueError on the interpreters that reject it before
\* parsing and SyntaxError on those that reject it in the parser.
compile(s) ==
    IF HasNul(s) THEN {"SyntaxError", "ValueError"}
    ELSE IF Len(s) = 0 \/ PyListEnd(s, 1) = Len(s) + 1 THEN {"ok"}
    ELSE {"SyntaxError"}

\* ------------------------------------------------------------------ re
\* A compiled pattern is a sequence of character sets (a literal is a
\* singleton, [..] a set).  Every result is a record whose field err says
\* that re.error was raised.
Raised == [err |-> TRUE]

\* The set that starts after the "[" at i - 1, with the position after its
\* "]".  A "]" right after the "[" is a member, not the end.
RECURSIVE ParseSet(_, _, _, _)
ParseSet(p, i, chars, first) ==
    IF i > Len(p) THEN Raised
    ELSE IF p[i] = "]" /\ ~first THEN [err |-> FALSE, chars |-> chars, next |-> i + 1]
    ELSE IF p[i] = BSL
         THEN IF i + 1 > Len(p) THEN Raised
              ELSE ParseSet(p, i + 2, chars \cup {p[i + 1]}, FALSE)
    ELSE ParseSet(p, i + 1, chars \cup {p[i]}, FALSE)

RECURSIVE ParsePattern(_, _, _)
ParsePattern(p, i, items) ==
    IF i > Len(p) THEN [err |-> FALSE, items |-> items]
    ELSE IF p[i] = BSL
         THEN IF i + 1 > Len(p) THEN Raised
              ELSE ParsePattern(p, i + 2, Append(items, {p[i + 1]}))
    ELSE IF p[i] = "["
         THEN LET set == ParseSet(p, i + 1, {}, TRUE)
              IN  IF set.err THEN Raised
                  ELSE ParsePattern(p, set.next, Append(items, set.chars))
    ELSE ParsePattern(p, i + 1, Append(items, {p[i]}))

re_compile(p) == ParsePattern(p, 1, <<>>)

\* The replacement as a template: two backslashes are one backslash, a
\* backslash before another character of Alphabet stays with it, a
\* backslash at the end is an error.
RECURSIVE ExpandTemplate(_, _, _)
ExpandTemplate(r, i, out) ==
    IF i > Len(r) THEN [err |-> FALSE, text |-> out]
    ELSE IF r[i] = BSL
         THEN IF i + 1 > Len(r) THEN Raised
              ELSE IF r[i + 1] = BSL THEN ExpandTemplate(r, i + 2, Append(out, BSL))
              ELSE ExpandTemplate(r, i + 2, out \o <<BSL, r[i + 1]>>)
    ELSE ExpandTemplate(r, i + 1, Append(out, r[i]))

parse_template(r) == ExpandTemplate(r, 1, <<>>)

MatchesAt(items, s, i) ==
    /\ i + Len(items) - 1 <= Len(s)
    /\ \A k \in 1..Len(items) : s[i + k - 1] \in items[k]

\* The pattern matches some substring of s (the empty pattern matches the
\* empty substring).
Matches(items, s) == Len(items) = 0 \/ \E i \in 1..Len(s) : MatchesAt(items, s, i)

\* Leftmost non-overlapping matches replaced by the expanded template.
RECURSIVE SubFrom(_, _, _, _)
SubFrom(items, repl, s, i) ==
    IF i > Len(s) THEN IF Len(items) = 0 THEN repl ELSE <<>>
    ELSE IF Len(items) = 0 THEN repl \o <<s[i]>> \o SubFrom(items, repl, s, i + 1)
    ELSE IF MatchesAt(items, s, i) THEN repl \o SubFrom(items, repl, s, i + Len(items))
    ELSE <<s[i]>> \o SubFrom(items, repl, s, i + 1)

\* re.sub(pattern, replacement, old_content) for text arguments.  The
\* pattern is compiled first, then the template (also when nothing matches).
re_sub(pattern, replacement, old_content) ==
    LET compiled == re_compile(pattern)
        template == parse_template(replacement)
    IN  IF compiled.err \/ template.err THEN Raised
        ELSE [err |-> FALSE, text |-> SubFrom(compiled.items, template.text, old_content, 1)]

\* ------------------------------------------------------------------ markdown fences
\* The text of a response is over FenceAlphabet: "~" for the backtick, "j" for a
\* letter or digit, the newline and the space for whitespace, "{" for any
\* other character.
BT == "~"
NL == "\n"
AlphaNum == {"j"}
Whitespace == {NL, " "}
FenceAlphabet == {BT, "{"} \cup AlphaNum \cup Whitespace
Fence == <<BT, BT, BT>>

\* text.strip()
RECURSIVE lstrip(_), rstrip(_)
lstrip(text) ==
    IF Len(text) > 0 /\ Head(text) \in Whitespace THEN lstrip(Tail(text)) ELSE text

rstrip(text) ==
    IF Len(text) > 0 /\ text[Len(text)] \in Whitespace
    THEN rstrip(SubSeq(text, 1, Len(text) - 1))
    ELSE text

strip(text) == rstrip(lstrip(text))

RECURSIVE DropAlphaNum(_)
DropAlphaNum(text) ==
    IF Len(text) > 0 /\ Head(text) \in AlphaNum THEN DropAlphaNum(Tail(text)) ELSE text

DropNewline(text) == IF Len(text) > 0 /\ Head(text) = NL THEN Tail(text) ELSE text

\* Line 35, re.sub of an opening fence by '': three backticks at the start,
\* the letters and digits after them and one newline.
sub_leading_fence(text) ==
    IF Len(text) >= 3 /\ SubSeq(text, 1, 3) = Fence
    THEN DropNewline(DropAlphaNum(SubSeq(text, 4, Len(text))))
    ELSE text

\* Line 37, re.sub of a closing fence by '': three backticks before $,
\* which is the end of the text or the place before
\* a newline that ends it; the leftmost match is taken.
sub_trailing_fence(text) ==
    LET n == Len(text)
    IN  IF n >= 4 /\ text[n] = NL /\ SubSeq(text, n - 3, n - 1) = Fence
        THEN Append(SubSeq(text, 1, n - 4), NL)
        ELSE IF n >= 3 /\ SubSeq(text, n - 2, n) = Fence
        THEN SubSeq(text, 1, n - 3)
        ELSE text

\* Variant of strip_markdown_fences whose line 35 removes the backticks but
\* not a language tag after them.
strip_fences_keep_language(text) ==
    LET trimmed == strip(text)
        opened == IF Len(trimmed) >= 3 /\ SubSeq(trimmed, 1, 3) = Fence
                  THEN DropNewline(SubSeq(trimmed, 4, Len(trimmed)))
                  ELSE trimmed
    IN  strip(sub_trailing_fence(opened))

strip_markdown_fences(text) ==
    strip(sub_trailing_fence(sub_leading_fence(strip(text))))

\* A response between an opening fence line (with the language tag, which
\* may be empty) and a closing fence, on a line of its own or not.
Wrap(text, tag, own_line) ==
    Fence \o tag \o <<NL>> \o text \o (IF own_line THEN <<NL>> ELSE <<>>) \o Fence

Texts == SeqsUpTo(FenceAlphabet, MaxTextLen)
Tags == SeqsUpTo(AlphaNum, MaxTagLen)

\* ------------------------------------------------------------------ fix suggestions
\* A value of the decoded fix suggestion: text, or a JSON value that is
\* not text (a number).
Str(s) == [t |-> "str", s |-> s]
Num == [t |-> "num", s |-> <<>>]

Patterns == SeqsUpTo(Alphabet, MaxPatLen)
Replacements == SeqsUpTo(Alphabet, MaxReplLen)
PatternValues == {Str(p) : p \in Patterns} \cup {Num}
ReplacementValues == {Str(r) : r \in Replacements} \cup {Num}

\* What call_openai_for_fix returns, by what json.loads makes of it:
\*   "not_json"  text that json.loads rejects;
\*   "dict"      an object; keys are the keys it has among regex_pattern and
\*               replacement (explanation is only printed);
\*   "list", "str"  an array or a string; keys are the key names k for
\*               which  k in fix_data  is true (an element, a substring);
\*   "num"       a number.
Fix(t, keys, pattern, replacement) ==
    [t |-> t, keys |-> keys, regex_pattern |-> pattern, replacement |-> replacement]

KeySets == SUBSET {"regex_pattern", "replacement"}

DictFixes ==
    {Fix("dict", {}, Num, Num)}
    \cup {Fix("dict", {"regex_pattern"}, p, Num) : p \in PatternValues}
    \cup {Fix("dict", {"replacement"}, Num, r) : r \in ReplacementValues}
    \cup {Fix("dict", {"regex_pattern", "replacement"}, p, r) :
              p \in PatternValues, r \in ReplacementValues}

Responses ==
    DictFixes
    \cup {Fix("not_json", {}, Num, Num), Fix("num", {}, Num, Num)}
    \cup {Fix(t, k, Num, Num) : t \in {"list", "str"}, k \in KeySets}

\* The full-replacement fixes with a text replacement.
FullReplacements == {Fix("dict", {"replacement"}, Num, Str(r)) : r \in Replacements}

\* ------------------------------------------------------------------ state
VARIABLES
    file,                \* content of the target file
    jsonlint_installed,  \* whether jsonlint-php can be started
    service,             \* AnyService, or the one fix a deterministic service returns
    max_iterations,      \* parameter of fix_json_until_valid
    run,                 \* number of the current invocation
    pc,                  \* position in fix_json_until_valid
    iteration,           \* loop variable; 0 before the first iteration
    is_valid, lint_output,
    py_ok, error_summary,
    prompt,              \* what was sent with the last request
    fix_suggestion,
    changed,
    final_content,       \* content printed at the end of the run
    exception,           \* exception that ended the run
    checks, requests, writes,   \* calls of run_jsonlint, requests sent, file writes of this run
    checked_content,     \* file content at the last run_jsonlint
    unchecked_write,     \* the file was written after the last run_jsonlint
    unfenced,            \* the response text the service wrote
    message_content,     \* that text as delivered: as it is, or between code fences
    fix_suggestion_clean \* what call_openai_for_fix returns for message_content

vars == <<file, jsonlint_installed, service, max_iterations, run, pc, iteration,
          is_valid, lint_output, py_ok, error_summary, prompt, fix_suggestion,
          changed, final_content, exception, checks, requests, writes,
          checked_content, unchecked_write,
          unfenced, message_content, fix_suggestion_clean>>

response_text == <<unfenced, message_content, fix_suggestion_clean>>
env == <<jsonlint_installed, service, max_iterations>>
locals == <<is_valid, lint_output, py_ok, error_summary, prompt, fix_suggestion, changed>>

None == <<"None">>
NoFix == Fix("none", {}, Num, Num)
AnyService == Fix("any", {}, Num, Num)
APIError == Fix("APIError", {}, Num, Num)
NoPrompt == [error_output |-> None, current_content |-> None]

Terminal == {"Done", "Aborted", "Exhausted", "Fatal"}

\* ------------------------------------------------------------------ validator
ValidMarker == <<"Valid JSON">>

\* Standard output of jsonlint-php for a file with this content.
jsonlint_php(content) ==
    IF json_load(content) THEN ValidMarker \o <<"(file)">>
    ELSE <<"file: Parse error on line 1:">> \o content

check_json_via_python(content) ==
    IF json_load(content)
    THEN [is_valid |-> TRUE, lint_output |-> <<"Valid JSON (Python builtin)">>]
    ELSE [is_valid |-> FALSE, lint_output |-> <<"JSONDecodeError">>]

run_jsonlint(content, installed) ==
    IF installed
    THEN LET stdout == jsonlint_php(content)
         IN  [is_valid |-> Contains(stdout, ValidMarker), lint_output |-> stdout]
    ELSE check_json_via_python(content)

\* ------------------------------------------------------------------ fix applier
Applied(ret, content, wrote) == [ret |-> ret, file |-> content, wrote |-> wrote]

\* Variants of apply_fix_to_file: line 209 without the comparison (a regex
\* fix always counts as applied), and line 197 with "or" for "and".
apply_fix_always_changed(fix_response, old_content) ==
    IF fix_response.t = "not_json" THEN Applied("False", old_content, FALSE)
    ELSE IF fix_response.t = "num" THEN Applied("TypeError", old_content, FALSE)
    ELSE IF "regex_pattern" \in fix_response.keys /\ "replacement" \in fix_response.keys
         THEN IF fix_response.t # "dict" THEN Applied("TypeError", old_content, FALSE)
              ELSE IF fix_response.regex_pattern.t # "str"
                   THEN Applied("TypeError", old_content, FALSE)
              ELSE IF re_compile(fix_response.regex_pattern.s).err
                   THEN Applied("re.error", old_content, FALSE)
              ELSE IF fix_response.replacement.t # "str"
                   THEN Applied("TypeError", old_content, FALSE)
              ELSE LET new_content == re_sub(fix_response.regex_pattern.s,
                                             fix_response.replacement.s, old_content)
                   IN  IF new_content.err THEN Applied("re.error", old_content, FALSE)
                       ELSE Applied("True", new_content.text, TRUE)
    ELSE IF "replacement" \in fix_response.keys
         THEN IF fix_response.t # "dict" THEN Applied("TypeError", old_content, FALSE)
              ELSE IF fix_response.replacement.t # "str"
                   THEN Applied("TypeError", <<>>, TRUE)
              ELSE Applied("True", fix_response.replacement.s, TRUE)
    ELSE Applied("False", old_content, FALSE)

apply_fix_either_key(fix_response, old_content) ==
    IF fix_response.t = "not_json" THEN Applied("False", old_content, FALSE)
    ELSE IF fix_response.t = "num" THEN Applied("TypeError", old_content, FALSE)
    ELSE IF "regex_pattern" \in fix_response.keys \/ "replacement" \in fix_response.keys
         THEN IF fix_response.t # "dict" THEN Applied("TypeError", old_content, FALSE)
              ELSE IF {"regex_pattern", "replacement"} # fix_response.keys
                   THEN Applied("KeyError", old_content, FALSE)
              ELSE IF fix_response.regex_pattern.t # "str"
                   THEN Applied("TypeError", old_content, FALSE)
              ELSE IF re_compile(fix_response.regex_pattern.s).err
                   THEN Applied("re.error", old_content, FALSE)
              ELSE IF fix_response.replacement.t # "str"
                   THEN Applied("TypeError", old_content, FALSE)
              ELSE LET new_content == re_sub(fix_response.regex_pattern.s,
                                             fix_response.replacement.s, old_content)
                   IN  IF new_content.err THEN Applied("re.error", old_content, FALSE)
                       ELSE IF new_content.text # old_content
                            THEN Applied("True", new_content.text, TRUE)
                       ELSE Applied("False", old_content, FALSE)
    ELSE Applied("False", old_content, FALSE)

\* Variant of apply_fix_to_file without the return of line 213: after the
\* regex result is written the function returns None, which is not true.
apply_fix_no_return(fix_response, old_content) ==
    IF fix_response.t = "not_json" THEN Applied("False", old_content, FALSE)
    ELSE IF fix_response.t = "num" THEN Applied("TypeError", old_content, FALSE)
    ELSE IF "regex_pattern" \in fix_response.keys /\ "replacement" \in fix_response.keys
         THEN IF fix_response.t # "dict" THEN Applied("TypeError", old_content, FALSE)
              ELSE IF fix_response.regex_pattern.t # "str"
                   THEN Applied("TypeError", old_content, FALSE)
              ELSE IF re_compile(fix_response.regex_pattern.s).err
                   THEN Applied("re.error", old_content, FALSE)
              ELSE IF fix_response.replacement.t # "str"
                   THEN Applied("TypeError", old_content, FALSE)
              ELSE LET new_content == re_sub(fix_response.regex_pattern.s,
                                             fix_response.replacement.s, old_content)
                   IN  IF new_content.err THEN Applied("re.error", old_content, FALSE)
                       ELSE IF new_content.text # old_content
                            THEN Applied("False", new_content.text, TRUE)
                       ELSE Applied("False", old_content, FALSE)
    ELSE IF "replacement" \in fix_response.keys
         THEN IF fix_response.t # "dict" THEN Applied("TypeError", old_content, FALSE)
              ELSE IF fix_response.replacement.t # "str"
                   THEN Applied("TypeError", <<>>, TRUE)
              ELSE Applied("True", fix_response.replacement.s, TRUE)
    ELSE Applied("False", old_content, FALSE)

\* Variant of apply_fix_to_file with re.sub inside a try that handles
\* re.error as the decoding error is handled: False is returned.
apply_fix_catches_re_error(fix_response, old_content) ==
    IF fix_response.t = "not_json" THEN Applied("False", old_content, FALSE)
    ELSE IF fix_response.t = "num" THEN Applied("TypeError", old_content, FALSE)
    ELSE IF "regex_pattern" \in fix_response.keys /\ "replacement" \in fix_response.keys
         THEN IF fix_response.t # "dict" THEN Applied("TypeError", old_content, FALSE)
              ELSE IF fix_response.regex_pattern.t # "str"
                   THEN Applied("TypeError", old_content, FALSE)
              ELSE IF re_compile(fix_response.regex_pattern.s).err
                   THEN Applied("False", old_content, FALSE)
              ELSE IF fix_response.replacement.t # "str"
                   THEN Applied("TypeError", old_content, FALSE)
              ELSE LET new_content == re_sub(fix_response.regex_pattern.s,
                                             fix_response.replacement.s, old_content)
                   IN  IF new_content.err THEN Applied("False", old_content, FALSE)
                       ELSE IF new_content.text # old_content
                            THEN Applied("True", new_content.text, TRUE)
                       ELSE Applied("False", old_content, FALSE)
    ELSE IF "replacement" \in fix_response.keys
         THEN IF fix_response.t # "dict" THEN Applied("TypeError", old_content, FALSE)
              ELSE IF fix_response.replacement.t # "str"
                   THEN Applied("TypeError", <<>>, TRUE)
              ELSE Applied("True", fix_response.replacement.s, TRUE)
    ELSE Applied("False", old_content, FALSE)

\* Variant of apply_fix_to_file whose full replacement is compared with the
\* content as the regex result is: an identical replacement is not written
\* and False is returned.
apply_fix_compare_full(fix_response, old_content) ==
    IF fix_response.t = "not_json" THEN Applied("False", old_content, FALSE)
    ELSE IF fix_response.t = "num" THEN Applied("TypeError", old_content, FALSE)
    ELSE IF "regex_pattern" \in fix_response.keys /\ "replacement" \in fix_response.keys
         THEN IF fix_response.t # "dict" THEN Applied("TypeError", old_content, FALSE)
              ELSE IF fix_response.regex_pattern.t # "str"
                   THEN Applied("TypeError", old_content, FALSE)
              ELSE IF re_compile(fix_response.regex_pattern.s).err
                   THEN Applied("re.error", old_content, FALSE)
              ELSE IF fix_response.replacement.t # "str"
                   THEN Applied("TypeError", old_content, FALSE)
              ELSE LET new_content == re_sub(fix_response.regex_pattern.s,
                                             fix_response.replacement.s, old_content)
                   IN  IF new_content.err THEN Applied("re.error", old_content, FALSE)
                       ELSE IF new_content.text # old_content
                            THEN Applied("True", new_content.text, TRUE)
                       ELSE Applied("False", old_content, FALSE)
    ELSE IF "replacement" \in fix_response.keys
         THEN IF fix_response.t # "dict" THEN Applied("TypeError", old_content, FALSE)
              ELSE IF fix_response.replacement.t # "str"
                   THEN Applied("TypeError", <<>>, TRUE)
              ELSE IF fix_response.replacement.s # old_content
                   THEN Applied("True", fix_response.replacement.s, TRUE)
              ELSE Applied("False", old_content, FALSE)
    ELSE Applied("False", old_content, FALSE)

\* apply_fix_to_file on a file with content old_content: what it returns
\* ("True", "False") or raises, the content it leaves and whether it opened
\* the file for writing.
apply_fix_to_file(fix_response, old_content) ==
    IF fix_response.t = "not_json" THEN Applied("False", old_content, FALSE)
    ELSE IF fix_response.t = "num" THEN Applied("TypeError", old_content, FALSE)
    ELSE IF "regex_pattern" \in fix_response.keys /\ "replacement" \in fix_response.keys
         THEN IF fix_response.t # "dict" THEN Applied("TypeError", old_content, FALSE)
              ELSE IF fix_response.regex_pattern.t # "str"
                   THEN Applied("TypeError", old_content, FALSE)
              ELSE IF re_compile(fix_response.regex_pattern.s).err
                   THEN Applied("re.error", old_content, FALSE)
              ELSE IF fix_response.replacement.t # "str"
                   THEN Applied("TypeError", old_content, FALSE)
              ELSE LET new_content == re_sub(fix_response.regex_pattern.s,
                                             fix_response.replacement.s, old_content)
                   IN  IF new_content.err THEN Applied("re.error", old_content, FALSE)
                       ELSE IF new_content.text # old_content
                            THEN Applied("True", new_content.text, TRUE)
                       ELSE Applied("False", old_content, FALSE)
    ELSE IF "replacement" \in fix_response.keys
         THEN IF fix_response.t # "dict" THEN Applied("TypeError", old_content, FALSE)
              ELSE IF fix_response.replacement.t # "str"
                   THEN Applied("TypeError", <<>>, TRUE)
              ELSE Applied("True", fix_response.replacement.s, TRUE)
    ELSE Applied("False", old_content, FALSE)

\* ------------------------------------------------------------------ repair loop
\* Variants of LoopNext: a loop whose counter is never advanced, and a loop
\* that runs one iteration more than max_iterations.
LoopNext_NoIncrement(it, content) ==
    [pc |-> "Checking", iteration |-> it, final_content |-> None]

LoopNext_OffByOne(it, content) ==
    IF it <= max_iterations
    THEN [pc |-> "Checking", iteration |-> it + 1, final_content |-> None]
    ELSE [pc |-> "Exhausted", iteration |-> it, final_content |-> content]

\* The for statement of fix_json_until_valid taking its next value after
\* iteration it: the next iteration starts, or the loop is over and the
\* file is read and printed.
LoopNext(it, content) ==
    IF it < max_iterations
    THEN [pc |-> "Checking", iteration |-> it + 1, final_content |-> None]
    ELSE [pc |-> "Exhausted", iteration |-> it, final_content |-> content]

\* fix_json_until_valid(file_path, max_iterations) is called: lines 289-299.
Init ==
    /\ file \in SeqsUpTo(Alphabet, MaxLen)
    /\ jsonlint_installed \in BOOLEAN
    /\ service \in {AnyService} \cup FullReplacements
    /\ max_iterations \in 1..MaxIterations
    /\ run = 1
    /\ pc = LoopNext(0, file).pc
    /\ iteration = LoopNext(0, file).iteration
    /\ final_content = LoopNext(0, file).final_content
    /\ is_valid = FALSE
    /\ lint_output = None
    /\ py_ok = TRUE
    /\ error_summary = None
    /\ prompt = NoPrompt
    /\ fix_suggestion = NoFix
    /\ changed = FALSE
    /\ exception = "none"
    /\ checks = 0
    /\ requests = 0
    /\ writes = 0
    /\ checked_content = None
    /\ unchecked_write = FALSE
    /\ unfenced = None
    /\ message_content = None
    /\ fix_suggestion_clean = None

\* Variant of Check without the return of line 255: a valid verdict does
\* not end the run.
Check_NoReturn ==
    /\ pc = "Checking"
    /\ LET result == run_jsonlint(file, jsonlint_installed)
       IN  /\ is_valid' = result.is_valid
           /\ lint_output' = result.lint_output
    /\ pc' = "Probing"
    /\ checks' = checks + 1
    /\ checked_content' = file
    /\ unchecked_write' = FALSE
    /\ UNCHANGED <<file, env, response_text, run, iteration, py_ok, error_summary, prompt,
                   fix_suggestion, changed, final_content, exception, requests, writes>>

\* Variant of Check with the test of line 248 inverted: the run ends on an
\* invalid verdict.
Check_InvertedTest ==
    /\ pc = "Checking"
    /\ LET result == run_jsonlint(file, jsonlint_installed)
       IN  /\ is_valid' = result.is_valid
           /\ lint_output' = result.lint_output
           /\ pc' = IF result.is_valid THEN "Probing" ELSE "Done"
           /\ final_content' = IF result.is_valid THEN final_content ELSE file
    /\ checks' = checks + 1
    /\ checked_content' = file
    /\ unchecked_write' = FALSE
    /\ UNCHANGED <<file, env, response_text, run, iteration, py_ok, error_summary, prompt,
                   fix_suggestion, changed, exception, requests, writes>>

\* Lines 247-255: the validator is run; valid content ends the run.
Check ==
    /\ pc = "Checking"
    /\ LET result == run_jsonlint(file, jsonlint_installed)
       IN  /\ is_valid' = result.is_valid
           /\ lint_output' = result.lint_output
           /\ pc' = IF result.is_valid THEN "Done" ELSE "Probing"
           /\ final_content' = IF result.is_valid THEN file ELSE final_content
    /\ checks' = checks + 1
    /\ checked_content' = file
    /\ unchecked_write' = FALSE
    /\ UNCHANGED <<file, env, response_text, run, iteration, py_ok, error_summary, prompt,
                   fix_suggestion, changed, exception, requests, writes>>

\* Variant of Probe whose open of line 91 is for writing: the file is
\* emptied before it is read and compiled.
Probe_OpensForWriting ==
    /\ pc = "Probing"
    /\ file' = <<>>
    /\ py_ok' = TRUE
    /\ error_summary' = <<"JSON Lint Output:">> \o lint_output
    /\ pc' = "Requesting"
    /\ UNCHANGED <<env, response_text, run, iteration, is_valid, lint_output, prompt,
                   fix_suggestion, changed, final_content, exception, checks, requests,
                   writes, checked_content, unchecked_write>>

\* Lines 260-267: simulate_python_execution and the error summary.  Only
\* SyntaxError is caught; any other exception of compile() ends the run.
Probe ==
    /\ pc = "Probing"
    /\ \E outcome \in compile(file) :
          IF outcome = "ValueError"
          THEN /\ pc' = "Fatal"
               /\ exception' = outcome
               /\ UNCHANGED <<py_ok, error_summary>>
          ELSE /\ py_ok' = (outcome = "ok")
               /\ error_summary' =
                      <<"JSON Lint Output:">> \o lint_output
                      \o (IF outcome = "ok" THEN <<>>
                          ELSE <<"Python SyntaxError:", "SyntaxError">>)
               /\ pc' = "Requesting"
               /\ UNCHANGED exception
    /\ UNCHANGED <<file, env, response_text, run, iteration, is_valid, lint_output, prompt,
                   fix_suggestion, changed, final_content, checks, requests, writes,
                   checked_content, unchecked_write>>

\* What the remote service can answer: a deterministic service its one
\* fix; any other service any response, or the request fails.
Replies == IF service = AnyService THEN Responses \cup {APIError} ELSE {service}

\* Variant of Request with the call of line 274 inside a try: a failed
\* request is reported and fix_json_until_valid returns.
Request_CatchesError ==
    /\ pc = "Requesting"
    /\ prompt' = [error_output |-> error_summary, current_content |-> file]
    /\ requests' = requests + 1
    /\ \E reply \in Replies :
          IF reply.t = "APIError"
          THEN /\ pc' = "Aborted"
               /\ exception' = "APIError"
               /\ UNCHANGED fix_suggestion
          ELSE /\ fix_suggestion' = reply
               /\ pc' = "Applying"
               /\ UNCHANGED exception
    /\ UNCHANGED <<file, env, response_text, run, iteration, is_valid, lint_output, py_ok,
                   error_summary, changed, final_content, checks, writes,
                   checked_content, unchecked_write>>

\* Lines 269-274: the content is read and the request is sent.
Request ==
    /\ pc = "Requesting"
    /\ prompt' = [error_output |-> error_summary, current_content |-> file]
    /\ requests' = requests + 1
    /\ \E reply \in Replies :
          IF reply.t = "APIError"
          THEN /\ pc' = "Fatal"
               /\ exception' = "APIError"
               /\ UNCHANGED fix_suggestion
          ELSE /\ fix_suggestion' = reply
               /\ pc' = "Applying"
               /\ UNCHANGED exception
    /\ UNCHANGED <<file, env, response_text, run, iteration, is_valid, lint_output, py_ok,
                   error_summary, changed, final_content, checks, writes,
                   checked_content, unchecked_write>>

\* Variant of Apply that trusts an applied fix: the run ends as repaired
\* right after the write, without another run_jsonlint.
Apply_TrustFix ==
    /\ pc = "Applying"
    /\ LET applied == apply_fix_to_file(fix_suggestion, file)
       IN  /\ file' = applied.file
           /\ writes' = IF applied.wrote THEN writes + 1 ELSE writes
           /\ unchecked_write' = (unchecked_write \/ applied.wrote)
           /\ IF applied.ret = "True"
              THEN /\ changed' = TRUE
                   /\ pc' = "Done"
                   /\ final_content' = applied.file
                   /\ UNCHANGED <<iteration, exception>>
              ELSE IF applied.ret = "False"
              THEN /\ changed' = FALSE
                   /\ pc' = "Aborted"
                   /\ UNCHANGED <<iteration, final_content, exception>>
              ELSE /\ pc' = "Fatal"
                   /\ exception' = applied.ret
                   /\ UNCHANGED <<changed, iteration, final_content>>
    /\ UNCHANGED <<env, response_text, run, is_valid, lint_output, py_ok, error_summary, prompt,
                   fix_suggestion, checks, requests, checked_content>>

\* Lines 277-280 and the loop head: the fix is applied; the loop goes on
\* only when apply_fix_to_file returned True.
Apply ==
    /\ pc = "Applying"
    /\ LET applied == apply_fix_to_file(fix_suggestion, file)
           next == LoopNext(iteration, applied.file)
       IN  /\ file' = applied.file
           /\ writes' = IF applied.wrote THEN writes + 1 ELSE writes
           /\ unchecked_write' = (unchecked_write \/ applied.wrote)
           /\ IF applied.ret = "True"
              THEN /\ changed' = TRUE
                   /\ pc' = next.pc
                   /\ iteration' = next.iteration
                   /\ final_content' = next.final_content
                   /\ UNCHANGED exception
              ELSE IF applied.ret = "False"
              THEN /\ changed' = FALSE
                   /\ pc' = "Aborted"
                   /\ UNCHANGED <<iteration, final_content, exception>>
              ELSE /\ pc' = "Fatal"
                   /\ exception' = applied.ret
                   /\ UNCHANGED <<changed, iteration, final_content>>
    /\ UNCHANGED <<env, response_text, run, is_valid, lint_output, py_ok, error_summary, prompt,
                   fix_suggestion, checks, requests, checked_content>>

\* Lines 289-299: the tool is invoked again on the file it repaired.
Restart ==
    /\ pc = "Done"
    /\ run < MaxRuns
    /\ run' = run + 1
    /\ pc' = LoopNext(0, file).pc
    /\ iteration' = LoopNext(0, file).iteration
    /\ final_content' = LoopNext(0, file).final_content
    /\ is_valid' = FALSE
    /\ lint_output' = None
    /\ py_ok' = TRUE
    /\ error_summary' = None
    /\ prompt' = NoPrompt
    /\ fix_suggestion' = NoFix
    /\ changed' = FALSE
    /\ exception' = "none"
    /\ checks' = 0
    /\ requests' = 0
    /\ writes' = 0
    /\ checked_content' = None
    /\ unchecked_write' = FALSE
    /\ UNCHANGED <<file, env, response_text>>

Next == Check \/ Probe \/ Request \/ Apply \/ Restart

Spec == Init /\ [][Next]_vars

\* ------------------------------------------------------------------ single functions
\* fix_json_until_valid is not running: its variables at rest.
AtRest ==
    /\ service = AnyService
    /\ max_iterations = 1
    /\ run = 0
    /\ iteration = 0
    /\ is_valid = FALSE
    /\ lint_output = None
    /\ py_ok = TRUE
    /\ error_summary = None
    /\ prompt = NoPrompt
    /\ fix_suggestion = NoFix
    /\ changed = FALSE
    /\ final_content = None
    /\ exception = "none"
    /\ checks = 0
    /\ requests = 0
    /\ writes = 0
    /\ checked_content = None
    /\ unchecked_write = FALSE

\* Line 161: the service has answered with a text, delivered as it is or
\* between code fences.
FenceInit ==
    /\ AtRest
    /\ pc = "Stripping"
    /\ file = <<>>
    /\ jsonlint_installed = FALSE
    /\ unfenced \in Texts
    /\ message_content \in
           {unfenced} \cup {Wrap(unfenced, tag, own_line) : tag \in Tags, own_line \in BOOLEAN}
    /\ fix_suggestion_clean = None

\* Lines 164-168: call_openai_for_fix strips the fences and returns.
StripFences ==
    /\ pc = "Stripping"
    /\ fix_suggestion_clean' = strip_markdown_fences(message_content)
    /\ pc' = "Stripped"
    /\ UNCHANGED <<file, env, run, iteration, locals, final_content, exception,
                   checks, requests, writes, checked_content, unchecked_write,
                   unfenced, message_content>>

FenceNext == StripFences

FenceSpec == FenceInit /\ [][FenceNext]_vars

\* The file contents the validators are compared on: text over Alphabet
\* and the words Valid JSON (one element, the text of ValidMarker).
Contents == SeqsUpTo(Alphabet \cup {ValidMarker[1]}, MaxContentLen)

\* run_jsonlint is called on a file, jsonlint-php installed or not.
ValidatorInit ==
    /\ AtRest
    /\ pc = "Validating"
    /\ file \in Contents
    /\ jsonlint_installed \in BOOLEAN
    /\ unfenced = None
    /\ message_content = None
    /\ fix_suggestion_clean = None

\* Lines 41-65: run_jsonlint returns its verdict and its output.
Validate ==
    /\ pc = "Validating"
    /\ LET result == run_jsonlint(file, jsonlint_installed)
       IN  /\ is_valid' = result.is_valid
           /\ lint_output' = result.lint_output
    /\ pc' = "Validated"
    /\ checks' = checks + 1
    /\ checked_content' = file
    /\ UNCHANGED <<file, env, response_text, run, iteration, py_ok, error_summary,
                   prompt, fix_suggestion, changed, final_content, exception,
                   requests, writes, unchecked_write>>

ValidatorNext == Validate

ValidatorSpec == ValidatorInit /\ [][ValidatorNext]_vars

\* ------------------------------------------------------------------ properties
\* Shapes of a fix suggestion.
IsRegexFix(f) ==
    /\ f.t = "dict"
    /\ f.keys = {"regex_pattern", "replacement"}
    /\ f.regex_pattern.t = "str"
    /\ f.replacement.t = "str"

IsFullReplacement(f) ==
    /\ f.t = "dict"
    /\ f.keys = {"replacement"}
    /\ f.replacement.t = "str"

\* Text that does not decode, or an object without the key replacement.
IsMalformed(f) == f.t = "not_json" \/ (f.t = "dict" /\ "replacement" \notin f.keys)

\* Decodes as JSON but is neither of the two accepted shapes: not an
\* object, or a key of the fix with a value that is not text.
IsWrongShape(f) ==
    \/ f.t \in {"num", "list", "str"}
    \/ /\ f.t = "dict"
       /\ \/ "replacement" \in f.keys /\ f.replacement.t # "str"
          \/ "regex_pattern" \in f.keys /\ f.regex_pattern.t # "str"

Running == {"Checking", "Probing", "Requesting", "Applying"}

\* A step of the current run (not the start of another one).
SameRun == run' = run

\* No step is taken from a terminal state other than starting another run.
TerminalIsFinal == pc \in Terminal => ~SameRun

\* C1: when the validator reports the initial content valid, the run is in
\* Done after exactly one check, with no request and no write, and the file
\* is the content that was checked.
C1_ValidInputDone ==
    (iteration = 1 /\ is_valid) =>
        /\ pc = "Done"
        /\ checks = 1
        /\ requests = 0
        /\ writes = 0
        /\ file = checked_content
        /\ final_content = file

C1_Witness == pc = "Done" /\ run = 1 /\ iteration = 1 /\ is_valid /\ checks = 1

\* C2: with a service that always returns the same full replacement whose
\* text R is valid JSON (and a budget of at least two iterations), the run
\* never leaves iteration 2, ends in no state other than Done, Done is
\* reached with the file equal to R, and a second run writes nothing.
C2_DeterministicFixDone ==
    (service \in FullReplacements /\ json_load(service.replacement.s) /\ max_iterations >= 2) =>
        /\ iteration <= 2
        /\ pc \notin {"Aborted", "Exhausted", "Fatal"}
        /\ pc = "Done" => file = service.replacement.s
        /\ run = 2 => writes = 0

\* C3: every run terminates.  Each step of a run lowers Variant, which is
\* never negative, so a run has no more than 4 * max_iterations steps; the
\* counter is within 1..max_iterations, a step leaves it or adds 1, and a
\* terminal state is left only by a new run.
Rank(p) ==
    CASE p = "Checking" -> 4
      [] p = "Probing" -> 3
      [] p = "Requesting" -> 2
      [] p = "Applying" -> 1
      [] OTHER -> 0

Variant(p, it) == IF p \in Terminal THEN 0 ELSE 4 * (max_iterations - it) + Rank(p)

C3_Terminates ==
    /\ [](pc \in Running \cup Terminal /\ iteration \in 1..max_iterations)
    /\ [][SameRun => /\ Variant(pc', iteration') < Variant(pc, iteration)
                     /\ iteration' \in {iteration, iteration + 1}]_vars

C3_Witness == pc = "Exhausted" /\ iteration = MaxIterations /\ checks = MaxIterations

\* C4: a run whose iterations 1..max_iterations all found the file invalid
\* and applied a fix ends in Exhausted, reports the content left by the
\* last write, and has made exactly max_iterations checks, requests and
\* writes; no run makes more than max_iterations of any of them.
C4_Exhausted ==
    /\ [](/\ checks <= max_iterations
          /\ requests <= max_iterations
          /\ writes <= max_iterations
          /\ pc = "Exhausted" =>
                /\ iteration = max_iterations
                /\ changed
                /\ final_content = file
                /\ checks = max_iterations
                /\ requests = max_iterations
                /\ writes = max_iterations)
    /\ [][(pc = "Applying" /\ iteration = max_iterations /\ changed' /\ pc' # "Fatal") =>
              /\ pc' = "Exhausted"
              /\ final_content' = file'
              /\ writes' = writes + 1]_vars
    /\ [][pc = "Exhausted" => ~SameRun]_vars

C4_Witness ==
    /\ pc = "Exhausted"
    /\ max_iterations = MaxIterations
    /\ writes = MaxIterations
    /\ ~json_load(checked_content)

\* C5 as stated: no terminal state is reached with a write that no
\* run_jsonlint has checked.
C5_EveryWriteChecked == pc \in Terminal => ~unchecked_write

\* C5 amended: a write is followed by a check of the written content,
\* except the write of iteration max_iterations, after which the run ends
\* in Exhausted, and the truncation of the file by a full replacement whose
\* value is not text, after which the run ends with TypeError.
C5_WritesRevalidated ==
    /\ unchecked_write =>
          \/ pc = "Checking" /\ iteration >= 2
          \/ pc = "Exhausted" /\ iteration = max_iterations
          \/ pc = "Fatal" /\ exception = "TypeError" /\ file = <<>>
    /\ (~unchecked_write /\ checks > 0) => checked_content = file
    /\ (pc = "Exhausted") => unchecked_write

C5_Witness == pc = "Done" /\ writes = 1 /\ iteration = 2 /\ checked_content = file

\* C6 as stated: a fix (regex or full replacement) that leaves the content
\* as it was ends the run in Aborted.
C6_NoOpAborts ==
    [][(/\ pc = "Applying"
        /\ IsRegexFix(fix_suggestion) \/ IsFullReplacement(fix_suggestion)
        /\ pc' # "Fatal"
        /\ file' = file) => pc' = "Aborted"]_vars

\* C6 amended: a regex fix that leaves the content as it was ends the run in
\* that iteration without a write, in Aborted when re.sub returned and
\* with re.error when it raised; no check or request follows.  A full
\* replacement equal to the content is written, counts as a change and the
\* loop goes on.
C6_RegexNoOpAborts ==
    /\ [][(pc = "Applying" /\ IsRegexFix(fix_suggestion) /\ file' = file) =>
              /\ pc' \in {"Aborted", "Fatal"}
              /\ pc' = "Aborted" <=> ~re_sub(fix_suggestion.regex_pattern.s,
                                            fix_suggestion.replacement.s, file).err
              /\ writes' = writes
              /\ checks' = checks
              /\ requests' = requests]_vars
    /\ [][(pc = "Applying" /\ IsFullReplacement(fix_suggestion)) =>
              /\ file' = fix_suggestion.replacement.s
              /\ changed'
              /\ writes' = writes + 1
              /\ pc' \in {"Checking", "Exhausted"}]_vars
    /\ [][TerminalIsFinal]_vars

C6_Witness ==
    /\ pc = "Aborted"
    /\ IsRegexFix(fix_suggestion)
    /\ fix_suggestion.regex_pattern.s = <<",">>
    /\ fix_suggestion.replacement.s = <<",">>
    /\ file = <<",", ",">>

\* C7: a regex fix whose pattern matches no substring of the content leaves
\* the file as it is, writes nothing and ends the run in Aborted.
C7_NoMatchAborts ==
    [][(/\ pc = "Applying"
        /\ IsRegexFix(fix_suggestion)
        /\ ~re_compile(fix_suggestion.regex_pattern.s).err
        /\ ~Matches(re_compile(fix_suggestion.regex_pattern.s).items, file)) =>
              /\ file' = file
              /\ writes' = writes
              /\ pc' = "Aborted"]_vars

\* C8: a response that does not decode, or decodes to an object without the
\* key replacement, ends the run in Aborted in that iteration: nothing is
\* written, no other request is made and no step follows.
C8_MalformedAborts ==
    /\ [][(pc = "Applying" /\ IsMalformed(fix_suggestion)) =>
              /\ pc' = "Aborted"
              /\ file' = file
              /\ writes' = writes
              /\ requests' = requests
              /\ iteration' = iteration
              /\ exception' = "none"]_vars
    /\ [][pc = "Aborted" => ~SameRun]_vars

C8_Witness ==
    /\ pc = "Aborted"
    /\ fix_suggestion.t = "dict"
    /\ fix_suggestion.keys = {"regex_pattern"}
    /\ file = checked_content
    /\ writes = 0

\* C9: a response that decodes as JSON but has neither accepted shape ends
\* the run in Aborted with the file unchanged and no exception.
C9_ShapeHandledLocally ==
    [][(pc = "Applying" /\ IsWrongShape(fix_suggestion)) =>
              /\ pc' = "Aborted"
              /\ file' = file
              /\ exception' = "none"]_vars

\* C10: whatever the probe does, the loop goes on to the request, and the
\* prober message is in the error text exactly when the probe failed.
HasProberMessage(summary) == Contains(summary, <<"Python SyntaxError:">>)

C10_ProbeAdvisory ==
    [][pc = "Probing" =>
          /\ pc' = "Requesting"
          /\ HasProberMessage(error_summary') <=> (compile(file) # {"ok"})]_vars

\* A text without three backticks in a row.
FenceFree(text) == ~Contains(text, Fence)

\* C11: for a response text without a code fence, what is returned for
\* the text between an opening fence line (with or without a language tag)
\* and a closing fence is what is returned for the text itself; and a
\* fence-free text without surrounding whitespace is returned as it is,
\* fenced or not.
C11_FenceTransparent ==
    (pc = "Stripped" /\ FenceFree(unfenced)) =>
        /\ fix_suggestion_clean = strip_markdown_fences(unfenced)
        /\ fix_suggestion_clean = strip(unfenced)
        /\ strip(unfenced) = unfenced => fix_suggestion_clean = unfenced

C11_Witness ==
    /\ pc = "Stripped"
    /\ unfenced = <<"{", "j">>
    /\ message_content = Wrap(unfenced, <<"j">>, TRUE)
    /\ fix_suggestion_clean = unfenced

\* C12: the verdict run_jsonlint returns for a file equals the verdict of
\* check_json_via_python for the same file, with jsonlint-php installed or
\* not; no content that json.load rejects is reported valid.
C12_ValidatorsAgree ==
    pc = "Validated" => is_valid = check_json_via_python(file).is_valid

\* C13: the run is in Done only when the last run_jsonlint reported valid,
\* nothing was written after it and the content printed as final is the
\* content it checked (which is the file); Done is entered only by a step
\* from Checking that is that check and leaves the file alone.
C13_DoneOnlyFromValidCheck ==
    /\ [](pc = "Done" =>
              /\ is_valid
              /\ ~unchecked_write
              /\ final_content = checked_content
              /\ file = checked_content)
    /\ [][(pc' = "Done" /\ pc # "Done") =>
              /\ pc = "Checking"
              /\ is_valid'
              /\ checks' = checks + 1
              /\ checked_content' = file
              /\ file' = file
              /\ writes' = writes]_vars

C13_Witness ==
    /\ pc = "Done"
    /\ changed
    /\ is_valid
    /\ writes > 0
    /\ final_content = checked_content

\* C14: a regex fix with pattern P and replacement R makes the content C
\* into C with every match of P replaced by the text R; when that differs
\* from C it is written and the applier returns true, otherwise nothing is
\* written and it returns false.  (P well-formed: C17 is about the others.)
C14_RegexFix ==
    [][(/\ pc = "Applying"
        /\ IsRegexFix(fix_suggestion)
        /\ ~re_compile(fix_suggestion.regex_pattern.s).err) =>
           LET new_content == SubFrom(re_compile(fix_suggestion.regex_pattern.s).items,
                                      fix_suggestion.replacement.s, file, 1)
           IN  /\ file' = new_content
               /\ IF new_content # file
                  THEN changed' /\ writes' = writes + 1 /\ pc' \in {"Checking", "Exhausted"}
                  ELSE ~changed' /\ writes' = writes /\ pc' = "Aborted"]_vars

\* C15: a fix with a text replacement R and no regex_pattern makes the
\* file R and the applier returns true, whatever the content was, also
\* when it was R already: one write, changed is true, the loop goes on.
C15_FullReplacement ==
    /\ [](\A r \in Replacements :
              apply_fix_to_file(Fix("dict", {"replacement"}, Num, Str(r)), file)
                  = Applied("True", r, TRUE))
    /\ [][(pc = "Applying" /\ IsFullReplacement(fix_suggestion)) =>
              /\ file' = fix_suggestion.replacement.s
              /\ changed'
              /\ writes' = writes + 1
              /\ unchecked_write'
              /\ exception' = "none"
              /\ pc' = IF iteration < max_iterations THEN "Checking" ELSE "Exhausted"]_vars

C15_Witness ==
    /\ pc = "Checking"
    /\ changed
    /\ IsFullReplacement(fix_suggestion)
    /\ prompt.current_content = fix_suggestion.replacement.s
    /\ file = fix_suggestion.replacement.s
    /\ writes = 1

\* C16: the file content changes only in a step from Applying; the steps of
\* the validator (jsonlint-php or json.load), of the prober and of the
\* request leave it as it is; a call of the applier is at most one write,
\* so a run has written at most once per iteration.
C16_OnlyApplierWrites ==
    /\ [][(file' # file \/ writes' > writes) => pc = "Applying"]_vars
    /\ [][(pc \in {"Checking", "Probing", "Requesting"}) =>
              (file' = file /\ writes' = writes)]_vars
    /\ [][pc = "Applying" =>
              /\ writes' \in {writes, writes + 1}
              /\ file' # file => writes' = writes + 1]_vars
    /\ [](writes <= iteration)

C16_Witness ==
    /\ pc = "Applying"
    /\ iteration = 2
    /\ writes = 1
    /\ file = checked_content
    /\ file = prompt.current_content
    /\ ~py_ok

\* A fix with both keys whose regex_pattern is text that re cannot compile.
HasMalformedPattern(f) ==
    /\ f.t = "dict"
    /\ f.keys = {"regex_pattern", "replacement"}
    /\ f.regex_pattern.t = "str"
    /\ re_compile(f.regex_pattern.s).err

\* C17: a regex fix whose pattern is malformed ends the run in that
\* iteration with re.error: not in Aborted, with the file and the write
\* count as before the applier was called, no other check or request, and
\* no step after it.
C17_MalformedPatternFatal ==
    /\ [][(pc = "Applying" /\ HasMalformedPattern(fix_suggestion)) =>
              /\ pc' = "Fatal"
              /\ exception' = "re.error"
              /\ file' = file
              /\ writes' = writes
              /\ checks' = checks
              /\ requests' = requests
              /\ iteration' = iteration]_vars
    /\ [][pc = "Fatal" => FALSE]_vars

C17_Witness ==
    /\ pc = "Fatal"
    /\ exception = "re.error"
    /\ IsRegexFix(fix_suggestion)
    /\ fix_suggestion.regex_pattern.s = <<"[">>
    /\ fix_suggestion.replacement.s = <<"]">>
    /\ file = checked_content
    /\ file = <<"[">>

\* C18: a request that fails ends the run in its iteration with the error
\* of the client: the step goes from Requesting to Fatal, the file is the
\* content the validator found invalid in that iteration, the request was
\* the only one of the iteration, and no check, request, write or other
\* step follows.
C18_RequestFailureFatal ==
    /\ [][(pc = "Requesting" /\ exception' = "APIError") =>
              /\ pc' = "Fatal"
              /\ file' = file
              /\ iteration' = iteration
              /\ requests' = requests + 1
              /\ checks' = checks
              /\ writes' = writes
              /\ fix_suggestion' = fix_suggestion]_vars
    /\ [](exception = "APIError" =>
              /\ pc = "Fatal"
              /\ ~is_valid
              /\ file = checked_content
              /\ file = prompt.current_content
              /\ ~unchecked_write
              /\ requests = iteration
              /\ checks = iteration)
    /\ [][exception = "APIError" => UNCHANGED vars]_vars

C18_Witness ==
    /\ pc = "Fatal"
    /\ exception = "APIError"
    /\ iteration = 2
    /\ writes = 1
    /\ requests = 2
    /\ file = checked_content

\* C19: in Aborted the file is the content that the check of the same
\* iteration found invalid: the aborting iteration wrote nothing (the
\* writes of the run are those of the iterations before it), and Aborted
\* is entered from Applying by a step that leaves the file alone.
C19_AbortedFileIsChecked ==
    /\ [](pc = "Aborted" =>
              /\ file = checked_content
              /\ ~is_valid
              /\ ~unchecked_write
              /\ ~changed
              /\ checks = iteration
              /\ writes = iteration - 1)
    /\ [][pc' = "Aborted" =>
              /\ pc = "Applying"
              /\ file' = file
              /\ writes' = writes
              /\ iteration' = iteration]_vars

C19_Witness ==
    /\ pc = "Aborted"
    /\ iteration = 2
    /\ writes = 1
    /\ IsRegexFix(fix_suggestion)
    /\ file = checked_content
    /\ ~json_load(file)

====
